---- MODULE Spec2Model ----
(***************************************************************************)
(* State machine of the Todo application: the root container App           *)
(* (src/App.js) owns the goal list and the modal flag, the form GoalInput  *)
(* (src/components/GoalInput/index.js) owns the draft text, a GoalCard     *)
(* (src/App.js, GoalCard section) issues deletions.  Every event handler   *)
(* is one action: React applies the state updates a handler queues in one  *)
(* batch before the next event is handled.                                 *)
(***************************************************************************)
EXTENDS Integers, Sequences, FiniteSets, TLC

\* ------------------------------------------------------------------ bounds
\* Longest goal list explored (handleAddNewGoal is disabled beyond it).
MaxGoals == 3
\* Number of distinct values Math.random() can return in the model.
NumRandom == 2

\* ------------------------------------------------------------------ inputs
\* Texts the TextInput can deliver to goalInputHandler: the empty string, a
\* plain word and the same word with surrounding blanks.
Texts == {"", "a", " a "}

\* Math.random() returns some double of [0, 1); nothing relates two draws,
\* so every draw is a free choice among the representable values (tenths).
MathRandom == 0 .. (NumRandom - 1)

\* Number.prototype.toString on the tenths 0, 0.1, ..., 0.9: distinct
\* numbers give distinct strings.
NumberToString(r) ==
    <<"0", "0.1", "0.2", "0.3", "0.4", "0.5", "0.6", "0.7", "0.8", "0.9">>[r + 1]

\* The ids addNewGoals can produce.
GoalIds == { NumberToString(r) : r \in MathRandom }

\* ------------------------------------------------------------------- state
VARIABLES
    listOfGoals,     \* App: useState([])    sequence of [text, id]
    modalIsVisible,  \* App: useState(false)
    enteredGoal,     \* GoalInput: useState("")
    lastCall,        \* observer: the handler that ran last and its argument
    repeated,        \* observer: the last two handler runs were the same call
    addCalls,        \* observer: arguments of the addNewGoals calls so far,
                     \*   kept while no deleteGoal has run
    deleteCalled,    \* observer: some deleteGoal has run
    staleDraft,      \* observer: the draft was on screen at a Cancel and has
                     \*   not been edited or submitted since
    usedIds,         \* observer: the ids addNewGoals has given out so far
    createdRank,     \* observer: for each goal of listOfGoals, by position,
                     \*   its rank by creation time among the goals present
    lastTyped        \* observer: the argument of the last goalInputHandler
                     \*   call since the last submission, "" if there was none

vars == <<listOfGoals, modalIsVisible, enteredGoal,
          lastCall, repeated, addCalls, deleteCalled, staleDraft,
          usedIds, createdRank, lastTyped>>

\* The state the components hold (what a handler can read or write).
appState == <<listOfGoals, modalIsVisible, enteredGoal>>

NoArg == "<none>"

Call(op, arg) == [op |-> op, arg |-> arg]

\* Bookkeeping of the observers lastCall and repeated for one handler run.
Observe(op, arg) ==
    /\ lastCall' = Call(op, arg)
    /\ repeated' = (lastCall = Call(op, arg))

Init ==
    /\ listOfGoals = << >>
    /\ modalIsVisible = FALSE
    /\ enteredGoal = ""
    /\ lastCall = Call("init", NoArg)
    /\ repeated = FALSE
    /\ addCalls = << >>
    /\ deleteCalled = FALSE
    /\ staleDraft = FALSE
    /\ usedIds = {}
    /\ createdRank = << >>
    /\ lastTyped = ""

\* The goals of the list, each tagged with its position: the updaters are run
\* on them too, to see where each goal of the old list went.
Tagged ==
    [ i \in 1 .. Len(listOfGoals) |->
        [text |-> listOfGoals[i].text, id |-> listOfGoals[i].id, pos |-> i] ]

\* Bookkeeping of the observer createdRank: result is what an updater made of
\* Tagged; a goal without tag is new, hence younger than every goal present.
RanksAfter(result) ==
    LET age == [ i \in 1 .. Len(result) |->
                   IF "pos" \in DOMAIN result[i]
                   THEN createdRank[result[i].pos]
                   ELSE Len(listOfGoals) + 1 ]
    IN  [ i \in 1 .. Len(result) |->
            Cardinality({ j \in 1 .. Len(result) : age[j] <= age[i] }) ]

\* ---------------------------------------------------------------- helpers
\* Variant of the deleteGoal updater written with indexOf and splice: when no
\* goal has the id the index is -1 and splice(-1, 1) drops the last goal.
SpliceGoals(currentGoals, goalId) ==
    LET hits == { i \in 1 .. Len(currentGoals) : currentGoals[i].id = goalId }
        at   == IF hits = {} THEN Len(currentGoals)
                ELSE CHOOSE i \in hits : \A j \in hits : i <= j
    IN  SubSeq(currentGoals, 1, at - 1) \o SubSeq(currentGoals, at + 1, Len(currentGoals))

\* Variant of the deleteGoal updater written with map: the goal is blanked
\* where it stands instead of being taken out.
BlankGoals(currentGoals, goalId) ==
    [ i \in 1 .. Len(currentGoals) |->
        IF currentGoals[i].id = goalId
        THEN [currentGoals[i] EXCEPT !.text = ""]
        ELSE currentGoals[i] ]

\* Variant of the deleteGoal updater that removes in constant time: the last
\* goal is moved into the place of the first goal with the id.
SwapRemoveGoals(currentGoals, goalId) ==
    LET n    == Len(currentGoals)
        hits == { i \in 1 .. n : currentGoals[i].id = goalId }
        at   == CHOOSE i \in hits : \A j \in hits : i <= j
    IN  IF hits = {} THEN currentGoals
        ELSE SubSeq([currentGoals EXCEPT ![at] = currentGoals[n]], 1, n - 1)

\* The updater of deleteGoal: Array.prototype.filter with the predicate
\* goal.id !== goalId.
FilterGoals(currentGoals, goalId) ==
    LET keep(goal) == goal.id # goalId
    IN  SelectSeq(currentGoals, keep)

\* Variant of the addNewGoals updater that puts the new goal first.
PrependGoal(currentGoals, enteredText, r) ==
    <<[text |-> enteredText, id |-> NumberToString(r)]>> \o currentGoals

\* Variant of the addNewGoals updater that validates: an empty text or a text
\* the list already holds replaces the last goal instead of growing the list.
AppendGoalValidated(currentGoals, enteredText, r) ==
    LET goal == [text |-> enteredText, id |-> NumberToString(r)]
        known == \E i \in 1 .. Len(currentGoals) : currentGoals[i].text = enteredText
    IN  IF (enteredText = "" \/ known) /\ currentGoals # << >>
        THEN [currentGoals EXCEPT ![Len(currentGoals)] = goal]
        ELSE Append(currentGoals, goal)

\* The updater of addNewGoals: [...currentGoals, {text, id}].
AppendGoal(currentGoals, enteredText, r) ==
    Append(currentGoals, [text |-> enteredText, id |-> NumberToString(r)])

\* ---------------------------------------------------------------- actions
\* Variant of modalVisibility that toggles the flag.
modalVisibilityToggle ==
    /\ modalIsVisible' = ~modalIsVisible
    /\ Observe("modalVisibility", NoArg)
    /\ UNCHANGED <<listOfGoals, enteredGoal, addCalls, deleteCalled, staleDraft>>
    /\ UNCHANGED <<usedIds, createdRank, lastTyped>>

\* Variant of modalVisibility that opens the form with a fresh draft.
modalVisibilityFresh ==
    /\ modalIsVisible' = TRUE
    /\ enteredGoal' = ""
    /\ Observe("modalVisibility", NoArg)
    /\ UNCHANGED <<listOfGoals, addCalls, deleteCalled, staleDraft>>
    /\ UNCHANGED <<usedIds, createdRank, lastTyped>>

\* App.modalVisibility: the "Add Goals" button.
modalVisibility ==
    /\ modalIsVisible' = TRUE
    /\ Observe("modalVisibility", NoArg)
    /\ UNCHANGED <<listOfGoals, enteredGoal, addCalls, deleteCalled, staleDraft>>
    /\ UNCHANGED <<usedIds, createdRank, lastTyped>>

\* Variant of handleCloseModal that also clears the draft.
handleCloseModalClearing ==
    /\ modalIsVisible' = FALSE
    /\ enteredGoal' = ""
    /\ Observe("handleCloseModal", NoArg)
    /\ staleDraft' = FALSE
    /\ UNCHANGED <<listOfGoals, addCalls, deleteCalled>>
    /\ UNCHANGED <<usedIds, createdRank, lastTyped>>

\* Variant of handleCloseModal that saves the draft as a goal on the way out.
handleCloseModalSaving ==
    /\ modalIsVisible' = FALSE
    /\ listOfGoals' = IF Len(listOfGoals) < MaxGoals
                      THEN AppendGoal(listOfGoals, enteredGoal, 0)
                      ELSE listOfGoals
    /\ Observe("handleCloseModal", NoArg)
    /\ staleDraft' = (staleDraft \/ enteredGoal # "")
    /\ UNCHANGED <<enteredGoal, addCalls, deleteCalled>>
    /\ UNCHANGED <<usedIds, createdRank, lastTyped>>

\* App.handleCloseModal: the Cancel button of the form.
handleCloseModal ==
    /\ modalIsVisible' = FALSE
    /\ Observe("handleCloseModal", NoArg)
    /\ staleDraft' = (staleDraft \/ enteredGoal # "")
    /\ UNCHANGED <<listOfGoals, enteredGoal, addCalls, deleteCalled>>
    /\ UNCHANGED <<usedIds, createdRank, lastTyped>>

\* Variant of goalInputHandler that takes its argument for the characters
\* typed and appends them to the draft.
goalInputHandlerAppending(enteredText) ==
    /\ enteredGoal' = enteredGoal \o enteredText
    /\ Observe("goalInputHandler", enteredText)
    /\ staleDraft' = FALSE
    /\ lastTyped' = enteredText
    /\ UNCHANGED <<listOfGoals, modalIsVisible, addCalls, deleteCalled>>
    /\ UNCHANGED <<usedIds, createdRank>>

\* GoalInput.goalInputHandler: onChangeText of the TextInput.
goalInputHandler(enteredText) ==
    /\ enteredGoal' = enteredText
    /\ Observe("goalInputHandler", enteredText)
    /\ staleDraft' = FALSE
    /\ lastTyped' = enteredText
    /\ UNCHANGED <<listOfGoals, modalIsVisible, addCalls, deleteCalled>>
    /\ UNCHANGED <<usedIds, createdRank>>

\* Variant of addNewGoals that forgets setModalIsVisible(false).
addNewGoalsStayOpen(enteredText, r) ==
    /\ listOfGoals' = AppendGoal(listOfGoals, enteredText, r)
    /\ modalIsVisible' = modalIsVisible

\* Variant of addNewGoals that stores enteredText.trim().
addNewGoalsTrimmed(enteredText, r) ==
    /\ listOfGoals' = AppendGoal(listOfGoals,
                                 IF enteredText = " a " THEN "a" ELSE enteredText, r)
    /\ modalIsVisible' = FALSE

\* App.addNewGoals(enteredText), with r the value Math.random() returns.
addNewGoals(enteredText, r) ==
    /\ listOfGoals' = AppendGoal(listOfGoals, enteredText, r)
    /\ modalIsVisible' = FALSE

\* Variant of handleAddNewGoal that leaves the draft to a later event.
handleAddNewGoalKeepDraft ==
    /\ Len(listOfGoals) < MaxGoals
    /\ \E r \in MathRandom :
          /\ addNewGoals(enteredGoal, r)
          /\ usedIds' = usedIds \cup {NumberToString(r)}
          /\ createdRank' = RanksAfter(AppendGoal(Tagged, enteredGoal, r))
    /\ Observe("handleAddNewGoal", enteredGoal)
    /\ addCalls' = IF deleteCalled THEN addCalls ELSE Append(addCalls, enteredGoal)
    /\ staleDraft' = FALSE
    /\ UNCHANGED <<enteredGoal, lastTyped, deleteCalled>>

\* GoalInput.handleAddNewGoal: the "Add Goal" button of the form.
handleAddNewGoal ==
    /\ Len(listOfGoals) < MaxGoals
    /\ \E r \in MathRandom :
          /\ addNewGoals(enteredGoal, r)
          /\ usedIds' = usedIds \cup {NumberToString(r)}
          /\ createdRank' = RanksAfter(AppendGoal(Tagged, enteredGoal, r))
    /\ enteredGoal' = ""
    /\ lastTyped' = ""
    /\ Observe("handleAddNewGoal", enteredGoal)
    /\ addCalls' = IF deleteCalled THEN addCalls ELSE Append(addCalls, enteredGoal)
    /\ staleDraft' = FALSE
    /\ UNCHANGED deleteCalled

\* Variant of deleteGoal that also resets the draft of the form.
deleteGoalResetForm(goalId) ==
    /\ listOfGoals' = FilterGoals(listOfGoals, goalId)
    /\ enteredGoal' = ""
    /\ Observe("deleteGoal", goalId)
    /\ deleteCalled' = TRUE
    /\ addCalls' = << >>
    /\ createdRank' = RanksAfter(FilterGoals(Tagged, goalId))
    /\ UNCHANGED <<modalIsVisible, staleDraft, usedIds, lastTyped>>

\* Variant of deleteGoal that also dismisses the form.
deleteGoalClosing(goalId) ==
    /\ listOfGoals' = FilterGoals(listOfGoals, goalId)
    /\ modalIsVisible' = FALSE
    /\ Observe("deleteGoal", goalId)
    /\ deleteCalled' = TRUE
    /\ addCalls' = << >>
    /\ createdRank' = RanksAfter(FilterGoals(Tagged, goalId))
    /\ UNCHANGED <<enteredGoal, staleDraft, usedIds, lastTyped>>

\* Variant of deleteGoal that throws when no goal has the id: the call has
\* no next state.
deleteGoalStrict(goalId) ==
    /\ \E i \in 1 .. Len(listOfGoals) : listOfGoals[i].id = goalId
    /\ listOfGoals' = FilterGoals(listOfGoals, goalId)
    /\ Observe("deleteGoal", goalId)
    /\ deleteCalled' = TRUE
    /\ addCalls' = << >>
    /\ createdRank' = RanksAfter(FilterGoals(Tagged, goalId))
    /\ UNCHANGED <<modalIsVisible, enteredGoal, staleDraft, usedIds, lastTyped>>

\* App.deleteGoal(goalId), as GoalCard.DeleteGoal calls it.
deleteGoal(goalId) ==
    /\ listOfGoals' = FilterGoals(listOfGoals, goalId)
    /\ Observe("deleteGoal", goalId)
    /\ deleteCalled' = TRUE
    /\ addCalls' = << >>
    /\ createdRank' = RanksAfter(FilterGoals(Tagged, goalId))
    /\ UNCHANGED <<modalIsVisible, enteredGoal, staleDraft, usedIds, lastTyped>>

Next ==
    \/ modalVisibility
    \/ handleCloseModal
    \/ \E enteredText \in Texts : goalInputHandler(enteredText)
    \/ handleAddNewGoal
    \/ \E goalId \in GoalIds : deleteGoal(goalId)

Spec == Init /\ [][Next]_vars

\* ------------------------------------------------- events coming from the UI
\* Variant of ModalShown for a form that is on screen whatever the flag.
ModalShownAlways == TRUE

\* <Modal visible={visibilty}> with visibilty={modalIsVisible}: the TextInput
\* and the two ActionButtons are on screen while the flag is true.
ModalShown == modalIsVisible

\* The "Add Goals" Button of App.
PressAddGoals == modalVisibility

\* The Cancel ActionButton of the form.
PressCancel == ModalShown /\ handleCloseModal

\* The "Add Goal" ActionButton of the form.
PressAddGoal == ModalShown /\ handleAddNewGoal

\* Typing in the TextInput of the form.
ChangeText(enteredText) == ModalShown /\ goalInputHandler(enteredText)

\* The Delete Pressable of the GoalCard the FlatList renders for the i-th goal:
\* GoalCard.DeleteGoal calls onDeleteGoal(goal.item.id).
PressDelete(i) == deleteGoal(listOfGoals[i].id)

NextUI ==
    \/ PressAddGoals
    \/ PressCancel
    \/ PressAddGoal
    \/ \E enteredText \in Texts : ChangeText(enteredText)
    \/ \E i \in 1 .. Len(listOfGoals) : PressDelete(i)

SpecUI == Init /\ [][NextUI]_vars

TypeOK ==
    /\ listOfGoals \in Seq([text : Texts, id : GoalIds])
    /\ Len(listOfGoals) <= MaxGoals
    /\ modalIsVisible \in BOOLEAN
    /\ enteredGoal \in Texts

\* ------------------------------------------------------- claim vocabulary
op(call) == call.op
arg(call) == call.arg

IsStep(name) == op(lastCall') = name

HasId(goals, goalId) == \E i \in 1 .. Len(goals) : goals[i].id = goalId

FirstIndexOf(goals, goalId) ==
    CHOOSE i \in 1 .. Len(goals) :
        /\ goals[i].id = goalId
        /\ \A j \in 1 .. (i - 1) : goals[j].id # goalId

RemoveAt(goals, i) == SubSeq(goals, 1, i - 1) \o SubSeq(goals, i + 1, Len(goals))

TextsOf(goals) == [ i \in 1 .. Len(goals) |-> goals[i].text ]

CountText(goals, text) == Cardinality({ i \in 1 .. Len(goals) : goals[i].text = text })

\* ------------------------------------------------------------------ claims
\* C1: a submission appends exactly one goal, carrying the submitted text, at
\* the tail: the goals present before are all still there, unchanged and in
\* the same order, and the length grows by 1; so while no delete has run the
\* texts of the list are the arguments of the add calls, in call order.
C1_AddAppendsAtTail ==
    /\ [][ IsStep("handleAddNewGoal") =>
             /\ Len(listOfGoals') = Len(listOfGoals) + 1
             /\ SubSeq(listOfGoals', 1, Len(listOfGoals)) = listOfGoals
             /\ listOfGoals'[Len(listOfGoals')].text = arg(lastCall') ]_vars
    /\ [](~deleteCalled => TextsOf(listOfGoals) = addCalls)

C1_Witness ==
    /\ ~deleteCalled
    /\ op(lastCall) = "handleAddNewGoal"
    /\ addCalls = <<"a", "", " a ">>
    /\ Len(listOfGoals) = 3

\* C2: deleteGoal(id), when some goal has that id, removes exactly one goal,
\* the first one with that id, and leaves the others in place and in order.
C2_DeleteRemovesFirstMatchOnly ==
    [][ (IsStep("deleteGoal") /\ HasId(listOfGoals, arg(lastCall'))) =>
          listOfGoals' = RemoveAt(listOfGoals,
                                  FirstIndexOf(listOfGoals, arg(lastCall'))) ]_vars

\* C3: deleteGoal(id) for an id no goal carries leaves the list as it was.
C3_DeleteAbsentIdIsNoOp ==
    [][ (IsStep("deleteGoal") /\ ~HasId(listOfGoals, arg(lastCall'))) =>
          listOfGoals' = listOfGoals ]_vars

\* The same id deleted twice in a row: the second call found it absent.
C3_Witness ==
    /\ op(lastCall) = "deleteGoal"
    /\ repeated
    /\ Len(listOfGoals) >= 2

\* C4: no two goals of the list share an id.
C4_IdsAreUnique ==
    \A i, j \in 1 .. Len(listOfGoals) :
        i # j => listOfGoals[i].id # listOfGoals[j].id

\* C5: after a submission the modal flag is false and the draft is empty.
C5_SubmitClosesAndClears ==
    op(lastCall) = "handleAddNewGoal" => (~modalIsVisible /\ enteredGoal = "")

C5_Witness ==
    /\ op(lastCall) = "handleAddNewGoal"
    /\ arg(lastCall) = "a"
    /\ Len(listOfGoals) >= 2

C7_CancelKeepsList ==
    [][ IsStep("handleCloseModal") => listOfGoals' = listOfGoals ]_vars

C7_Witness ==
    /\ op(lastCall) = "handleCloseModal"
    /\ enteredGoal = "a"
    /\ Len(listOfGoals) >= 1

\* C8: a cancel discards the typed text: a submission from the reopened form,
\* with no edit since the cancel, does not add a goal with the cancelled text.
C8_CancelDiscardsDraft ==
    [][ (IsStep("handleAddNewGoal") /\ staleDraft /\ modalIsVisible) =>
          listOfGoals'[Len(listOfGoals')].text # enteredGoal ]_vars

\* C9: opening an open form leaves it open, closing a closed form leaves it
\* closed, and the second of two equal open/close calls in a row changes
\* nothing of the application state.
C9_OpenCloseIdempotent ==
    [][ /\ (IsStep("modalVisibility") /\ modalIsVisible) => modalIsVisible'
        /\ (IsStep("handleCloseModal") /\ ~modalIsVisible) => ~modalIsVisible'
        /\ (repeated' /\ op(lastCall') \in {"modalVisibility", "handleCloseModal"})
              => appState' = appState ]_vars

C9_Witness ==
    /\ op(lastCall) = "modalVisibility"
    /\ repeated
    /\ modalIsVisible
    /\ Len(listOfGoals) >= 1

\* C10: a submission of the empty text, or of a text some goal already has,
\* is not rejected: the list grows by 1 and holds one more goal of that text.
C10_NoValidationNoDedup ==
    [][ (/\ IsStep("handleAddNewGoal")
         /\ (enteredGoal = "" \/ CountText(listOfGoals, enteredGoal) > 0)) =>
          /\ Len(listOfGoals') = Len(listOfGoals) + 1
          /\ CountText(listOfGoals', enteredGoal) =
                 CountText(listOfGoals, enteredGoal) + 1 ]_vars

\* The empty text submitted while a goal with empty text was already there.
C10_Witness ==
    /\ lastCall = Call("handleAddNewGoal", "")
    /\ CountText(listOfGoals, "") >= 2

IsSubsequence(small, big) ==
    \E pick \in SUBSET (1 .. Len(big)) :
        /\ Cardinality(pick) = Len(small)
        /\ \A i \in 1 .. Len(small) :
             \E k \in pick :
                /\ Cardinality({ m \in pick : m <= k }) = i
                /\ big[k] = small[i]

\* C11: an id is never reused: the goal a submission creates gets an id that
\* no earlier goal, deleted or not, has had.
C11_IdsNeverReused ==
    [][ IsStep("handleAddNewGoal") =>
          listOfGoals'[Len(listOfGoals')].id \notin usedIds ]_vars

\* C12: goals are immutable: a submission leaves every goal present as it
\* was, a delete leaves exactly the goals with another id, each as it was and
\* in the same order, and no other call changes any goal.
C12_GoalsAreImmutable ==
    [][ /\ IsStep("handleAddNewGoal") =>
              \A i \in 1 .. Len(listOfGoals) : listOfGoals'[i] = listOfGoals[i]
        /\ IsStep("deleteGoal") =>
              /\ IsSubsequence(listOfGoals', listOfGoals)
              /\ Len(listOfGoals') =
                   Cardinality({ i \in 1 .. Len(listOfGoals) :
                                   listOfGoals[i].id # arg(lastCall') })
        /\ op(lastCall') \in {"modalVisibility", "handleCloseModal", "goalInputHandler"} =>
              listOfGoals' = listOfGoals ]_vars

\* A delete of id "0", which was given out, that left two goals standing.
C12_Witness ==
    /\ lastCall = Call("deleteGoal", "0")
    /\ "0" \in usedIds
    /\ Len(listOfGoals) = 2
    /\ listOfGoals[1].text # listOfGoals[2].text

\* C13: the goal a submission creates carries the draft of that moment,
\* character for character, and that draft is the argument of the last
\* goalInputHandler call since the previous submission ("" if none).
C13_SubmittedTextIsDraft ==
    [][ IsStep("handleAddNewGoal") =>
          /\ listOfGoals'[Len(listOfGoals')].text = enteredGoal
          /\ enteredGoal = lastTyped ]_vars

C13_Witness ==
    /\ lastCall = Call("handleAddNewGoal", " a ")
    /\ Len(listOfGoals) = 2
    /\ listOfGoals[2].text = " a "

\* C14: the flag goes from false to true only in a modalVisibility step and
\* from true to false only in a submission or a cancel; deleteGoal and
\* goalInputHandler never change it.
C14_FlagTransitions ==
    [][ /\ (~modalIsVisible /\ modalIsVisible') => IsStep("modalVisibility")
        /\ (modalIsVisible /\ ~modalIsVisible') =>
              (IsStep("handleAddNewGoal") \/ IsStep("handleCloseModal"))
        /\ (IsStep("deleteGoal") \/ IsStep("goalInputHandler")) =>
              modalIsVisible' = modalIsVisible ]_vars

\* A delete that ran while the form was open, and the form is still open.
C14_Witness ==
    /\ op(lastCall) = "deleteGoal"
    /\ modalIsVisible
    /\ Len(listOfGoals) >= 1

\* C15: every handler is total: in every reachable state each one can run
\* with any argument of its domain (the submission up to the length the model
\* explores), and every state reached is well formed.
C15_HandlersAreTotal ==
    /\ TypeOK
    /\ ENABLED modalVisibility
    /\ ENABLED handleCloseModal
    /\ \A enteredText \in Texts : ENABLED goalInputHandler(enteredText)
    /\ \A goalId \in GoalIds : ENABLED deleteGoal(goalId)
    /\ Len(listOfGoals) < MaxGoals => ENABLED handleAddNewGoal

\* The same delete run twice on the empty list, the form open.
C15_Witness ==
    /\ op(lastCall) = "deleteGoal"
    /\ repeated
    /\ listOfGoals = << >>
    /\ modalIsVisible

\* C16: the list is ordered by creation: of two goals present together the
\* one created earlier comes first.
C16_OrderedByCreation ==
    /\ Len(createdRank) = Len(listOfGoals)
    /\ \A i, j \in 1 .. Len(createdRank) : i < j => createdRank[i] < createdRank[j]

\* A full list built by submissions with deletes in between.
C16_Witness ==
    /\ deleteCalled
    /\ op(lastCall) = "handleAddNewGoal"
    /\ Len(listOfGoals) = 3

\* C17: a submission is one transition: the list grows only in a
\* handleAddNewGoal step, by one goal, and that same step leaves the flag
\* false and the draft empty.
C17_SubmitIsAtomic ==
    [][ (Len(listOfGoals') > Len(listOfGoals) \/ IsStep("handleAddNewGoal")) =>
          /\ IsStep("handleAddNewGoal")
          /\ Len(listOfGoals') = Len(listOfGoals) + 1
          /\ ~modalIsVisible'
          /\ enteredGoal' = "" ]_vars

C17_Witness ==
    /\ lastCall = Call("handleAddNewGoal", " a ")
    /\ Len(listOfGoals) = 1
    /\ ~modalIsVisible
    /\ enteredGoal = ""

\* C18: modalVisibility sets the flag and leaves the list and the draft alone.
C18_OpenTouchesFlagOnly ==
    [][ IsStep("modalVisibility") =>
          /\ modalIsVisible'
          /\ listOfGoals' = listOfGoals
          /\ enteredGoal' = enteredGoal ]_vars

C18_Witness ==
    /\ op(lastCall) = "modalVisibility"
    /\ ~repeated
    /\ modalIsVisible
    /\ enteredGoal = "a"
    /\ Len(listOfGoals) = 2

\* C19: goalInputHandler(text) makes the draft exactly text, whatever the
\* draft was, and leaves the list and the flag alone.
C19_EditOverwritesDraft ==
    [][ IsStep("goalInputHandler") =>
          /\ enteredGoal' = arg(lastCall')
          /\ listOfGoals' = listOfGoals
          /\ modalIsVisible' = modalIsVisible ]_vars

\* The same text delivered twice: the second call found a non-empty draft;
\* no goal was ever created.
C19_Witness ==
    /\ lastCall = Call("goalInputHandler", " a ")
    /\ repeated
    /\ enteredGoal = " a "
    /\ usedIds = {}
    /\ listOfGoals = << >>

\* C20: with the events the UI can deliver, every submission and every cancel
\* starts with the flag true, and the list never grows while the form is
\* hidden.
C20_FormEventsNeedOpenForm ==
    [][ /\ (IsStep("handleAddNewGoal") \/ IsStep("handleCloseModal")) => modalIsVisible
        /\ Len(listOfGoals') > Len(listOfGoals) => modalIsVisible ]_vars

C20_Witness ==
    /\ op(lastCall) = "handleAddNewGoal"
    /\ Len(listOfGoals) = 2
    /\ deleteCalled

\* C21: with the events the UI can deliver, every delete removes exactly one
\* goal, so the length of the list is the number of submissions minus the
\* number of card deletes: each step changes the length by +1 if it is a
\* submission, by -1 if it is a delete, and not at all otherwise.
C21_LengthIsAddsMinusDeletes ==
    [][ Len(listOfGoals') - Len(listOfGoals) =
          IF IsStep("handleAddNewGoal") THEN 1
          ELSE IF IsStep("deleteGoal") THEN -1
          ELSE 0 ]_vars

\* C22: the application starts with an empty list, the flag false and an
\* empty draft, and a delete leaves the flag and the draft as they were, so
\* the list can be emptied again without touching the form.
C22_InitialStateAndDeleteFrame ==
    /\ [](op(lastCall) = "init" =>
            (listOfGoals = << >> /\ ~modalIsVisible /\ enteredGoal = ""))
    /\ [][ IsStep("deleteGoal") =>
             (modalIsVisible' = modalIsVisible /\ enteredGoal' = enteredGoal) ]_vars

\* Every goal deleted again while the form was open with a draft in it.
C22_Witness ==
    /\ op(lastCall) = "deleteGoal"
    /\ listOfGoals = << >>
    /\ Cardinality(usedIds) = 2
    /\ modalIsVisible
    /\ enteredGoal = "a"

====
